---------------------------- MODULE Spec2Model ----------------------------
(***************************************************************************)
(* A model of the training hooks (src/quebap/sisyphos/hooks.py) and of the *)
(* text preprocessing toolkit (src/jack/util/preprocessing.py).            *)
(*                                                                         *)
(* Every object of the program is one variable holding a record of the     *)
(* object's fields; every call of a hook or of a preprocessing function is *)
(* one action.  Python strings are sequences of one-character strings,     *)
(* Python lists are sequences, None is the record NoneVal, and a float is  *)
(* a binary64 number held as its significand's bits and its exponent.      *)
(***************************************************************************)
EXTENDS Integers, Sequences, FiniteSets, TLC

VARIABLES
    lossHook,     \* the LossHook object: its fields, and what it printed
    lossCalls,    \* the losses the training loop passed to lossHook, in order
    accHook,      \* the AccuracyHook object: its fields, and what it printed
    accCalls,     \* the epochs the training loop passed to accHook, in order
    pure,         \* the last call of a function of preprocessing.py that keeps no state
    qa_settings,  \* the collection of QA settings the caller holds
    vocab,        \* the vocabulary the caller holds
    call          \* the last call of fill_vocab, nlp_preprocess_all or nlp_preprocess

vars == <<lossHook, lossCalls, accHook, accCalls, pure, qa_settings, vocab, call>>

(***************************************************************************)
(* Bounds of the model.                                                    *)
(***************************************************************************)
MaxInterval == 3      \* LossHook: iter_interval is drawn from 1..MaxInterval
MaxBatchSize == 3     \* LossHook: batch_size is drawn from 1..MaxBatchSize
MaxLoss == 2          \* LossHook: a loss is drawn from 0..MaxLoss
MaxLossCalls == 4     \* LossHook: calls of one hook
MaxCadence == 2       \* AccuracyHook: at_every_epoch is drawn from 1..MaxCadence
MaxEpoch == 2         \* AccuracyHook: epochs run from 0 to MaxEpoch
MaxAccCalls == 4      \* AccuracyHook: calls of one hook
MaxBatches == 2       \* AccuracyHook: evaluation batches of one hook
MaxBatchLen == 1      \* AccuracyHook: examples of one evaluation batch
MaxOffTextLen == 3    \* token_to_char_offsets: characters of the text
MaxOffTokens == 2     \* token_to_char_offsets: tokens
MaxOffTokLen == 2     \* token_to_char_offsets: characters of a token
MaxSymId == 2         \* char_vocab_from_vocab: ids of the word vocabulary are in 0..MaxSymId
MaxSymLen == 2        \* char_vocab_from_vocab: characters of a symbol
MaxValues == 2        \* stack_and_pad: elements of the list
MaxRank == 2          \* stack_and_pad: dimensions of an array
MaxDim == 2           \* stack_and_pad: size of a dimension
MaxRows == 2          \* transpose_dict_of_lists: values of one field
MaxKeys == 2          \* transpose_dict_of_lists: field names selected
MaxTexts == 2         \* fill_vocab, nlp_preprocess_all: questions and passages of a collection

(***************************************************************************)
(* Values.                                                                 *)
(***************************************************************************)
Idle == [kind |-> "idle"]              \* an object this run does not construct
NoneVal == [kind |-> "None"]           \* Python's None

(***************************************************************************)
(* Floats.  A Python float is an IEEE 754 binary64 number.  The model      *)
(* holds the floats that are not negative: 0.0 is FloatZero, and any other *)
(* is [mant, exp], the number mant * 2^exp, where mant is the significand  *)
(* as a sequence of MantBits bits, most significant first, the first       *)
(* being 1.  The hooks' values stay far from the subnormal and the         *)
(* infinite range.  Every operation rounds to nearest, ties to even.       *)
(***************************************************************************)
MantBits == 53        \* the bits of a binary64 significand
GuardBits == 11       \* quotient bits computed past the significand; divisors < 2^7
ChunkBits == 8        \* the bits a step of the long division takes

\* The binary digits of the natural number n, most significant first
RECURSIVE Bits(_)
Bits(n) == IF n = 0 THEN <<>> ELSE Append(Bits(n \div 2), n % 2)

Zeros(n) == [i \in 1..n |-> 0]

PadLeft(bits, n) == Zeros(n - Len(bits)) \o bits

\* The place of the first 1, Len(bits) + 1 when there is none
FirstOne(bits) ==
    IF \A i \in 1..Len(bits) : bits[i] = 0 THEN Len(bits) + 1
    ELSE CHOOSE i \in 1..Len(bits) : bits[i] = 1 /\ \A j \in 1..(i - 1) : bits[j] = 0

Strip(bits) == SubSeq(bits, FirstOne(bits), Len(bits))

\* bits + 1, for bits that are not all 1
Increment(bits) ==
    [i \in 1..Len(bits) |->
        IF \A j \in (i + 1)..Len(bits) : bits[j] = 1 THEN 1 - bits[i] ELSE bits[i]]

FloatZero == [mant |-> <<>>, exp |-> 0]

\* The significand kept, one unit added in the last place when up
RoundKept(kept, exp, up) ==
    IF ~up THEN [mant |-> kept, exp |-> exp]
    ELSE IF \A i \in 1..Len(kept) : kept[i] = 1
    THEN [mant |-> <<1>> \o Zeros(MantBits - 1), exp |-> exp + 1]
    ELSE [mant |-> Increment(kept), exp |-> exp]

\* The float nearest to s * 2^exp (plus a fraction of 2^exp when sticky), s having
\* no leading 0: it rounds up when the part dropped is more than half a unit of
\* the last place kept, or is half a unit and the last place kept is 1.
RoundStripped(s, exp, sticky) ==
    IF Len(s) = 0 THEN FloatZero
    ELSE IF Len(s) <= MantBits
    THEN [mant |-> s \o Zeros(MantBits - Len(s)), exp |-> exp - (MantBits - Len(s))]
    ELSE RoundKept(SubSeq(s, 1, MantBits), exp + (Len(s) - MantBits),
                   /\ s[MantBits + 1] = 1
                   /\ \/ sticky
                      \/ s[MantBits] = 1
                      \/ \E i \in (MantBits + 2)..Len(s) : s[i] = 1)

Round(bits, exp, sticky) == RoundStripped(Strip(bits), exp, sticky)

\* float(n) for a natural number n
FloatOfInt(n) == Round(Bits(n), 0, FALSE)

\* The carry into place i of a + b, for bit sequences of one length: some place
\* to the right makes a carry and every place between passes it on.
CarryInto(a, b, i) ==
    IF \E j \in (i + 1)..Len(a) :
          /\ a[j] = 1 /\ b[j] = 1
          /\ \A k \in (i + 1)..(j - 1) : a[k] + b[k] = 1
    THEN 1 ELSE 0

\* a + b, one bit longer than a and b
AddPadded(a, b) ==
    [i \in 1..(Len(a) + 1) |->
        IF i = 1 THEN CarryInto(a, b, 0)
        ELSE (a[i - 1] + b[i - 1] + CarryInto(a, b, i - 1)) % 2]

AddBits(a, b, n) == AddPadded(PadLeft(a, n), PadLeft(b, n))

\* x + y, the significands being aligned at the lower exponent
FloatAddAt(x, y, exp) ==
    Round(AddBits(x.mant \o Zeros(x.exp - exp), y.mant \o Zeros(y.exp - exp),
                  MantBits + (IF x.exp > y.exp THEN x.exp - exp ELSE y.exp - exp)),
          exp, FALSE)

\* The float addition x + y
FloatAdd(x, y) ==
    IF Len(x.mant) = 0 THEN y
    ELSE IF Len(y.mant) = 0 THEN x
    ELSE FloatAddAt(x, y, IF x.exp < y.exp THEN x.exp ELSE y.exp)

\* The number a sequence of at most ChunkBits bits stands for
RECURSIVE ChunkValue(_, _)
ChunkValue(bits, k) == IF k = 0 THEN 0 ELSE 2 * ChunkValue(bits, k - 1) + bits[k]

\* 2^n
RECURSIVE Pow2(_)
Pow2(n) == IF n = 0 THEN 1 ELSE 2 * Pow2(n - 1)

\* Long division by q > 0, ChunkBits bits at a step, of the first k chunks of
\* bits, whose length is a multiple of ChunkBits: [quot, rem]
DivChunk(before, chunk, q) ==
    [quot |-> before.quot \o PadLeft(Bits((before.rem * Pow2(ChunkBits) + chunk) \div q),
                                     ChunkBits),
     rem  |-> (before.rem * Pow2(ChunkBits) + chunk) % q]

RECURSIVE DivBits(_, _, _)
DivBits(bits, q, k) ==
    IF k = 0 THEN [quot |-> <<>>, rem |-> 0]
    ELSE DivChunk(DivBits(bits, q, k - 1),
                  ChunkValue(SubSeq(bits, (k - 1) * ChunkBits + 1, k * ChunkBits), ChunkBits),
                  q)

RoundQuotient(r, exp) == Round(r.quot, exp, r.rem # 0)

\* The float division x / k for an integer k > 0
FloatDivInt(x, k) ==
    IF Len(x.mant) = 0 THEN FloatZero
    ELSE RoundQuotient(DivBits(x.mant \o Zeros(GuardBits), k,
                               (MantBits + GuardBits) \div ChunkBits),
                       x.exp - GuardBits)

(***************************************************************************)
(* LossHook                                                                *)
(***************************************************************************)
\* TraceHook.update_summary: writes a summary when there is a summary writer.
update_summary(hook, current_step, title, value) ==
    IF hook.summary_writer
    THEN Append(hook.summaries, [step |-> current_step, title |-> title, value |-> value])
    ELSE hook.summaries

LOSS_TRACE_TAG == "Loss"
ACCURACY_TRACE_TAG == "Accuracy"

\* LossHook.__init__
LossHookInit(iter_interval, batch_size, summary_writer) ==
    [iter_interval  |-> iter_interval,
     acc_loss       |-> FloatZero,
     batch_size     |-> batch_size,
     iter           |-> 0,
     summary_writer |-> summary_writer,
     summaries      |-> <<>>,
     printed        |-> <<>>]

\* The condition of the report: "not self.iter == 0 and self.iter % self.iter_interval == 0"
LossReportDue(it, iter_interval) ==
    ~(it = 0) /\ it % iter_interval = 0

\* Lines 47 to 53, for the accumulator acc that line 46 left
LossHookReport_NoReset(hook, epoch, it, acc) ==
    IF LossReportDue(it, hook.iter_interval)
    THEN [hook EXCEPT
            !.iter = it,
            !.printed = Append(@, [epoch |-> epoch, iter |-> it,
                                   loss |-> FloatDivInt(acc, hook.iter_interval)]),
            !.summaries = update_summary(hook, it, LOSS_TRACE_TAG,
                                         FloatDivInt(acc, hook.iter_interval)),
            !.acc_loss = acc]
    ELSE [hook EXCEPT !.iter = it, !.acc_loss = acc]

LossHookReport(hook, epoch, it, acc) ==
    IF LossReportDue(it, hook.iter_interval)
    THEN [hook EXCEPT
            !.iter = it,
            !.printed = Append(@, [epoch |-> epoch, iter |-> it,
                                   loss |-> FloatDivInt(acc, hook.iter_interval)]),
            !.summaries = update_summary(hook, it, LOSS_TRACE_TAG,
                                         FloatDivInt(acc, hook.iter_interval)),
            !.acc_loss = FloatZero]
    ELSE [hook EXCEPT !.iter = it, !.acc_loss = acc]

\* "loss / self.batch_size"
LossOverBatch(loss, batch_size) == FloatDivInt(FloatOfInt(loss), batch_size)

\* LossHook.__call__: the hook after the call
LossHookCall_NoReset(hook, epoch, loss) ==
    LossHookReport_NoReset(hook, epoch, hook.iter + 1,
                           FloatAdd(hook.acc_loss, LossOverBatch(loss, hook.batch_size)))

LossHookCall(hook, epoch, loss) ==
    LossHookReport(hook, epoch, hook.iter + 1,
                   FloatAdd(hook.acc_loss, LossOverBatch(loss, hook.batch_size)))

\* The training loop runs LossBatches batches in an epoch; the epoch only shows
\* in the printed line.
LossBatches == 2
LossEpoch == Len(lossCalls) \div LossBatches

\* The training loop calls the hook after a batch.
LossHook__call__ ==
    /\ Len(lossCalls) < MaxLossCalls
    /\ \E loss \in 0..MaxLoss :
          /\ lossHook' = LossHookCall(lossHook, LossEpoch, loss)
          /\ lossCalls' = Append(lossCalls, loss)
    /\ UNCHANGED <<accHook, accCalls, pure, qa_settings, vocab, call>>

InitLoss ==
    /\ \E iter_interval \in 1..MaxInterval, batch_size \in 1..MaxBatchSize,
          summary_writer \in BOOLEAN :
          lossHook = LossHookInit(iter_interval, batch_size, summary_writer)
    /\ lossCalls = <<>>
    /\ accHook = Idle
    /\ accCalls = <<>>
    /\ pure = Idle
    /\ qa_settings = Idle
    /\ vocab = Idle
    /\ call = Idle

NextLoss == LossHook__call__

SpecLoss == InitLoss /\ [][NextLoss]_vars

(***************************************************************************)
(* C2.  LossHook, interval n, batch size b, losses l_1, l_2, ...           *)
(***************************************************************************)
\* l_i / b for i in lo..hi, summed as floats in the order of the calls
RECURSIVE LossSum(_, _, _)
LossSum(lo, hi, b) ==
    IF hi < lo THEN FloatZero
    ELSE FloatAdd(LossSum(lo, hi - 1, b), FloatDivInt(FloatOfInt(lossCalls[hi]), b))

\* l_i for i in lo..hi, summed as integers
RECURSIVE LossTotal(_, _)
LossTotal(lo, hi) == IF hi < lo THEN 0 ELSE lossCalls[hi] + LossTotal(lo, hi - 1)

PowersOfTwo == {1, 2, 4, 8}

\* C2: after k calls the hook has reported exactly at the calls that are positive
\* multiples of n; the report of call j*n is (sum of l_i / b over the n calls since
\* the previous report) / n; the accumulator is the sum of l_i / b over the calls
\* since the last report, which is 0 right after a report.  The sums and quotients
\* are those of float arithmetic, the sum being taken in the order of the calls;
\* when b and n are powers of two no operation rounds, and the report is the float
\* of the exact mean.
C2_LossReports ==
    LET n == lossHook.iter_interval
        b == lossHook.batch_size
        k == Len(lossCalls)
        last == (k \div n) * n          \* the call of the last report, 0 if none
    IN  /\ lossHook.iter = k
        /\ Len(lossHook.printed) = k \div n
        /\ \A j \in 1..Len(lossHook.printed) :
              /\ lossHook.printed[j].iter = j * n
              /\ lossHook.printed[j].loss =
                     FloatDivInt(LossSum((j - 1) * n + 1, j * n, b), n)
              /\ (b \in PowersOfTwo /\ n \in PowersOfTwo) =>
                     lossHook.printed[j].loss =
                         FloatDivInt(FloatOfInt(LossTotal((j - 1) * n + 1, j * n)), b * n)
        /\ lossHook.acc_loss = LossSum(last + 1, k, b)
        /\ (k > 0 /\ k % n = 0) => lossHook.acc_loss = FloatZero

\* The float (hi * 2^27 + lo) * 2^exp, for a significand of MantBits bits
FloatOfParts(hi, lo, exp) ==
    [mant |-> PadLeft(Bits(hi), MantBits - 27) \o PadLeft(Bits(lo), 27), exp |-> exp]

\* The case of C2: a hook of interval 2 and batch size 3 that was called with the
\* losses 1, 2, 2, 2 has reported 0.5 at call 2 and 0.6666666666666666 at call 4,
\* the mean of 0.6666666666666666 + 0.6666666666666666 = 1.3333333333333333, and
\* holds 0 again.
C2_Witness ==
    /\ lossHook.iter_interval = 2
    /\ lossHook.batch_size = 3
    /\ lossCalls = <<1, 2, 2, 2>>
    /\ Len(lossHook.printed) = 2
    /\ lossHook.printed[1].iter = 2
    /\ lossHook.printed[1].loss = FloatOfParts(33554432, 0, -53)
    /\ lossHook.printed[2].iter = 4
    /\ lossHook.printed[2].loss = FloatOfParts(44739242, 89478485, -53)
    /\ lossHook.acc_loss = FloatZero

\* Another case of C2: a hook of interval 3 and batch size 3 that was called with
\* the losses 1, 2, 2 has reported 0.5555555555555555, a third of the float sum
\* 1.6666666666666665, where the exact mean 5/9 lies nearest to 0.5555555555555556.
C2_WitnessRounded ==
    /\ lossHook.iter_interval = 3
    /\ lossHook.batch_size = 3
    /\ lossCalls = <<1, 2, 2>>
    /\ Len(lossHook.printed) = 1
    /\ lossHook.printed[1].loss = FloatOfParts(37282702, 29826161, -53)
    /\ lossHook.printed[1].loss # FloatDivInt(FloatOfInt(5), 9)

(***************************************************************************)
(* AccuracyHook                                                            *)
(***************************************************************************)
Labels == {0, 1}

\* The evaluation batches a hook can be given: the inputs x and the targets y of
\* up to MaxBatchLen examples.  Without placeholders a batch is the feed mapping
\* itself; with the placeholders ("x", "y") it is the tuple (x, y).
FeedBatches ==
    UNION {{[x |-> xs, y |-> ys] : xs \in [1..n -> Labels], ys \in [1..n -> Labels]} :
           n \in 0..MaxBatchLen}

TupleBatches == {<<b.x, b.y>> : b \in FeedBatches}

BatchLists(B) == UNION {[1..m -> B] : m \in 0..MaxBatches}

\* dict(zip(placeholders, batch))
DictZip(keys, values) ==
    [k \in {keys[i] : i \in 1..Len(keys)} |->
        values[CHOOSE i \in 1..Len(keys) : keys[i] = k]]

\* "feed_dict = dict(zip(self.placeholders, batch))" or "feed_dict = batch"
FeedDict(placeholders, batch) ==
    IF placeholders # NoneVal THEN DictZip(placeholders.items, batch) ELSE batch

\* sess.run(self.predict, feed_dict): the prediction operation is the one of a
\* model that answers with its input.
sess_run(predict, feed_dict) == feed_dict[predict]

\* sum(feed_dict[self.target] == predicted)
CountEqual(a, b) == Cardinality({i \in 1..Len(a) : a[i] = b[i]})

\* AccuracyHook.__init__
AccuracyHookInit(batches, predict, target, at_every_epoch, placeholders, summary_writer) ==
    [batches        |-> batches,
     predict        |-> predict,
     target         |-> target,
     at_every_epoch |-> at_every_epoch,
     placeholders   |-> placeholders,
     done_for_epoch |-> FALSE,
     iter           |-> 0,
     summary_writer |-> summary_writer,
     summaries      |-> <<>>,
     printed        |-> <<>>]

\* The loop over self.batches: <<correct, total>> after the batches 1..n
RECURSIVE EvalBatches(_, _)
EvalBatches(hook, n) ==
    IF n = 0 THEN <<0, 0>>
    ELSE LET before    == EvalBatches(hook, n - 1)
             feed_dict == FeedDict(hook.placeholders, hook.batches[n])
             predicted == sess_run(hook.predict, feed_dict)
         IN  <<before[1] + CountEqual(feed_dict[hook.target], predicted),
               before[2] + Len(predicted)>>

\* AccuracyHook.__call__: the hook after the call, and the exception it raised
AccuracyHookCall(hook, epoch) ==
    LET it == hook.iter + 1
    IN  IF epoch % hook.at_every_epoch = 0
        THEN IF ~hook.done_for_epoch
             THEN LET ct      == EvalBatches(hook, Len(hook.batches))
                      correct == ct[1]
                      total   == ct[2]
                  IN  IF total = 0
                      THEN [hook   |-> [hook EXCEPT !.iter = it],
                            raised |-> "ZeroDivisionError"]
                      ELSE [hook   |-> [hook EXCEPT
                                !.iter = it,
                                !.summaries = update_summary(hook, it, ACCURACY_TRACE_TAG,
                                                             FloatDivInt(FloatOfInt(correct), total)),
                                !.printed = Append(@, [epoch |-> epoch,
                                                       acc |-> FloatDivInt(FloatOfInt(correct), total),
                                                       correct |-> correct,
                                                       total |-> total]),
                                !.done_for_epoch = TRUE],
                            raised |-> "none"]
             ELSE [hook |-> [hook EXCEPT !.iter = it], raised |-> "none"]
        ELSE [hook |-> [hook EXCEPT !.iter = it, !.done_for_epoch = FALSE],
              raised |-> "none"]

\* The epochs of the training loop: it starts at epoch 0 or 1 and a call is made
\* in the epoch of the call before it or in the next one.
CallEpochs ==
    IF accCalls = <<>> THEN {0, 1}
    ELSE LET e == accCalls[Len(accCalls)].epoch
         IN  {e, e + 1} \cap 0..MaxEpoch

\* The training loop calls the hook.
AccuracyHook__call__ ==
    /\ accHook # Idle
    /\ Len(accCalls) < MaxAccCalls
    /\ \E epoch \in CallEpochs :
          LET r == AccuracyHookCall(accHook, epoch)
          IN  /\ accHook' = r.hook
              /\ accCalls' = Append(accCalls, [epoch |-> epoch, raised |-> r.raised])
    /\ UNCHANGED <<lossHook, lossCalls, pure, qa_settings, vocab, call>>

InitAcc ==
    /\ \E at_every_epoch \in 1..MaxCadence, summary_writer \in BOOLEAN :
          \/ \E batches \in BatchLists(FeedBatches) :
                accHook = AccuracyHookInit(batches, "x", "y", at_every_epoch,
                                           NoneVal, summary_writer)
          \/ \E batches \in BatchLists(TupleBatches) :
                accHook = AccuracyHookInit(batches, "x", "y", at_every_epoch,
                                           [kind |-> "list", items |-> <<"x", "y">>],
                                           summary_writer)
    /\ accCalls = <<>>
    /\ lossHook = Idle
    /\ lossCalls = <<>>
    /\ pure = Idle
    /\ qa_settings = Idle
    /\ vocab = Idle
    /\ call = Idle

NextAcc == AccuracyHook__call__

SpecAcc == InitAcc /\ [][NextAcc]_vars

(***************************************************************************)
(* C1.  AccuracyHook, cadence 1: one evaluation pass per epoch.            *)
(***************************************************************************)
\* The evaluation passes the hook completed in epoch e: each prints one line.
PassesIn(e) ==
    Cardinality({i \in 1..Len(accHook.printed) : accHook.printed[i].epoch = e})

NoCallRaised == \A i \in 1..Len(accCalls) : accCalls[i].raised = "none"

\* C1: with cadence 1 and evaluation batches that hold an example, after any calls
\* the hook has run the evaluation pass exactly once for every epoch it was called
\* in: on the first call of the epoch and on no later call of it, and again once
\* when it is called in a subsequent epoch.
C1_OncePerEpoch ==
    (accHook.at_every_epoch = 1 /\ NoCallRaised) =>
        \A i \in 1..Len(accCalls) : PassesIn(accCalls[i].epoch) = 1

(***************************************************************************)
(* Strings: a Python str is a sequence of one-character strings.           *)
(***************************************************************************)
StringsOver(alphabet, lo, hi) == UNION {[1..n -> alphabet] : n \in lo..hi}

\* text[i : i + n], 0-based and clipped like a Python slice
Slice(text, i, n) ==
    LET hi == IF i + n < Len(text) THEN i + n ELSE Len(text)
    IN  IF hi <= i THEN <<>> ELSE SubSeq(text, i + 1, hi)

\* The places, 0-based and at or after start, where sub occurs in text
Occurrences(text, sub, start) ==
    {i \in start..(Len(text) - Len(sub)) : Slice(text, i, Len(sub)) = sub}

Min(S) == CHOOSE x \in S : \A y \in S : x <= y
Max(S) == CHOOSE x \in S : \A y \in S : y <= x

\* str.index(sub, start): the first occurrence at or after start; -1 stands for
\* the ValueError of a substring that is not found.
StrIndex(text, sub, start) ==
    IF Occurrences(text, sub, start) = {} THEN -1
    ELSE Min(Occurrences(text, sub, start))

(***************************************************************************)
(* token_to_char_offsets                                                   *)
(***************************************************************************)
\* One pass of the loop over tokenized_text: the state [offsets, offset, raised]
\* after the tokens 1..k; a raised ValueError ends the loop.
RECURSIVE OffsetsLoop_NoAdvance(_, _, _)
OffsetsLoop_NoAdvance(text, tokenized_text, k) ==
    IF k = 0 THEN [offsets |-> <<>>, offset |-> 0, raised |-> "none"]
    ELSE LET before == OffsetsLoop_NoAdvance(text, tokenized_text, k - 1)
             t      == tokenized_text[k]
             found  == StrIndex(text, t, before.offset)
         IN  IF before.raised # "none" THEN before
             ELSE IF found = -1 THEN [before EXCEPT !.raised = "ValueError"]
             ELSE [offsets |-> Append(before.offsets, found),
                   offset  |-> found,
                   raised  |-> "none"]

RECURSIVE OffsetsLoop(_, _, _)
OffsetsLoop(text, tokenized_text, k) ==
    IF k = 0 THEN [offsets |-> <<>>, offset |-> 0, raised |-> "none"]
    ELSE LET before == OffsetsLoop(text, tokenized_text, k - 1)
             t      == tokenized_text[k]
             found  == StrIndex(text, t, before.offset)
         IN  IF before.raised # "none" THEN before
             ELSE IF found = -1 THEN [before EXCEPT !.raised = "ValueError"]
             ELSE [offsets |-> Append(before.offsets, found),
                   offset  |-> found + Len(t),
                   raised  |-> "none"]

\* token_to_char_offsets(text, tokenized_text): the offsets, or the exception
token_to_char_offsets(text, tokenized_text) ==
    LET r == OffsetsLoop(text, tokenized_text, Len(tokenized_text))
    IN  IF r.raised = "none"
        THEN [raised |-> "none", value |-> r.offsets]
        ELSE [raised |-> r.raised, value |-> NoneVal]

OffAlphabet == {"a", "b"}

InitOffsets ==
    /\ \E text \in StringsOver(OffAlphabet, 0, MaxOffTextLen),
          tokens \in UNION {[1..n -> StringsOver(OffAlphabet, 0, MaxOffTokLen)] :
                            n \in 0..MaxOffTokens} :
          pure = [fn |-> "token_to_char_offsets", text |-> text, tokens |-> tokens,
                  returned |-> FALSE]
    /\ lossHook = Idle
    /\ lossCalls = <<>>
    /\ accHook = Idle
    /\ accCalls = <<>>
    /\ qa_settings = Idle
    /\ vocab = Idle
    /\ call = Idle

Call_token_to_char_offsets ==
    /\ pure.fn = "token_to_char_offsets"
    /\ ~pure.returned
    /\ pure' = [fn |-> pure.fn, text |-> pure.text, tokens |-> pure.tokens,
                returned |-> TRUE,
                result |-> token_to_char_offsets(pure.text, pure.tokens)]
    /\ UNCHANGED <<lossHook, lossCalls, accHook, accCalls, qa_settings, vocab, call>>

NextOffsets == Call_token_to_char_offsets

SpecOffsets == InitOffsets /\ [][NextOffsets]_vars

(***************************************************************************)
(* C5.  token_to_char_offsets                                              *)
(***************************************************************************)
\* The tokens occur in the text in left-to-right order without overlap: there are
\* places p_1 .. p_k with text[p_i : p_i + len(t_i)] = t_i and
\* p_i + len(t_i) <= p_(i+1).
OccurInOrder(text, tokens) ==
    \E p \in [1..Len(tokens) -> 0..Len(text)] :
        /\ \A i \in 1..Len(tokens) : p[i] \in Occurrences(text, tokens[i], 0)
        /\ \A i \in 1..(Len(tokens) - 1) : p[i] + Len(tokens[i]) <= p[i + 1]

C5_Returned == pure.fn = "token_to_char_offsets" /\ pure.returned

\* C5: when the tokens occur in the text in order without overlap, the call returns
\* one offset per token, the offsets are non-decreasing, the text holds each token
\* at its offset, and each offset is at or after the end of the occurrence matched
\* for the token before it; otherwise, and only then, the call fails with the
\* not-found error (ValueError) and returns no offsets.
C5_Offsets ==
    C5_Returned =>
        LET text   == pure.text
            tokens == pure.tokens
            r      == pure.result
        IN  /\ OccurInOrder(text, tokens) =>
                  /\ r.raised = "none"
                  /\ Len(r.value) = Len(tokens)
                  /\ \A i \in 1..Len(tokens) :
                        /\ r.value[i] >= 0
                        /\ Slice(text, r.value[i], Len(tokens[i])) = tokens[i]
                  /\ \A i \in 1..(Len(tokens) - 1) :
                        /\ r.value[i] <= r.value[i + 1]
                        /\ r.value[i] + Len(tokens[i]) <= r.value[i + 1]
            /\ ~OccurInOrder(text, tokens) =>
                  /\ r.raised = "ValueError"
                  /\ r.value = NoneVal

\* The case of C5: a repeated token is mapped to its successive occurrences.
C5_Witness ==
    /\ C5_Returned
    /\ pure.text = <<"a", "b", "a">>
    /\ pure.tokens = <<<<"a">>, <<"a">>>>
    /\ pure.result.raised = "none"
    /\ pure.result.value = <<0, 2>>

\* The other case of C5: a token with no occurrence left fails the call.
C5_WitnessNotFound ==
    /\ C5_Returned
    /\ pure.text = <<"a", "b">>
    /\ pure.tokens = <<<<"b">>, <<"a">>>>
    /\ pure.result.raised = "ValueError"

(***************************************************************************)
(* char_vocab_from_vocab                                                   *)
(***************************************************************************)
\* "if c not in char_vocab: char_vocab[c] = len(char_vocab)" for the first k
\* characters of the symbol w
RECURSIVE AddChars(_, _, _)
AddChars(char_vocab, w, k) ==
    IF k = 0 THEN char_vocab
    ELSE LET cv == AddChars(char_vocab, w, k - 1)
             c  == w[k]
         IN  IF c \notin DOMAIN cv
             THEN cv @@ (c :> Cardinality(DOMAIN cv))
             ELSE cv

\* The loop "for i in range(n)" with "w = vocab.id2sym.get(i)"
RECURSIVE ScanSymbols(_, _)
ScanSymbols(id2sym, n) ==
    IF n = 0 THEN ("PAD" :> 0)
    ELSE LET cv == ScanSymbols(id2sym, n - 1)
             i  == n - 1
         IN  IF i \in DOMAIN id2sym
             THEN AddChars(cv, id2sym[i], Len(id2sym[i]))
             ELSE cv

\* char_vocab_from_vocab(vocab): the character vocabulary, or the ValueError of
\* max() of no ids
char_vocab_from_vocab(id2sym) ==
    IF DOMAIN id2sym = {}
    THEN [raised |-> "ValueError", value |-> NoneVal]
    ELSE [raised |-> "none", value |-> ScanSymbols(id2sym, Max(DOMAIN id2sym) + 1)]

SymAlphabet == {"P", "A", "D"}

\* The symbols of a word vocabulary: short words, and the word PAD
Symbols == StringsOver(SymAlphabet, 0, MaxSymLen) \cup {<<"P", "A", "D">>}

InitCharVocab ==
    /\ \E ids \in SUBSET (0..MaxSymId) :
          \E id2sym \in [ids -> Symbols] :
             pure = [fn |-> "char_vocab_from_vocab", id2sym |-> id2sym,
                     returned |-> FALSE]
    /\ lossHook = Idle
    /\ lossCalls = <<>>
    /\ accHook = Idle
    /\ accCalls = <<>>
    /\ qa_settings = Idle
    /\ vocab = Idle
    /\ call = Idle

Call_char_vocab_from_vocab ==
    /\ pure.fn = "char_vocab_from_vocab"
    /\ ~pure.returned
    /\ pure' = [fn |-> pure.fn, id2sym |-> pure.id2sym, returned |-> TRUE,
                result |-> char_vocab_from_vocab(pure.id2sym)]
    /\ UNCHANGED <<lossHook, lossCalls, accHook, accCalls, qa_settings, vocab, call>>

NextCharVocab == Call_char_vocab_from_vocab

SpecCharVocab == InitCharVocab /\ [][NextCharVocab]_vars

(***************************************************************************)
(* C6.  char_vocab_from_vocab                                              *)
(***************************************************************************)
\* The characters of the symbols of a word vocabulary
CharsOf(id2sym) == UNION {{id2sym[i][k] : k \in 1..Len(id2sym[i])} : i \in DOMAIN id2sym}

\* Where the scan from id 0 upward meets the character c first
FirstMet(id2sym, c) ==
    LET i == Min({j \in DOMAIN id2sym : \E k \in 1..Len(id2sym[j]) : id2sym[j][k] = c})
        k == Min({l \in 1..Len(id2sym[i]) : id2sym[i][l] = c})
    IN  <<i, k>>

MetBefore(a, b) == a[1] < b[1] \/ (a[1] = b[1] /\ a[2] < b[2])

C6_Returned == pure.fn = "char_vocab_from_vocab" /\ pure.returned

\* What C6 says of the mapping cv returned for the word vocabulary id2sym
GoodCharVocab(id2sym, cv) ==
    /\ DOMAIN cv = {"PAD"} \cup CharsOf(id2sym)
    /\ cv["PAD"] = 0
    /\ \A c \in CharsOf(id2sym) : cv[c] > 0
    /\ \A c, d \in DOMAIN cv : c # d => cv[c] # cv[d]
    /\ {cv[c] : c \in DOMAIN cv} = 0..(Cardinality(DOMAIN cv) - 1)
    /\ \A c, d \in CharsOf(id2sym) :
          MetBefore(FirstMet(id2sym, c), FirstMet(id2sym, d)) => cv[c] < cv[d]

\* C6: for any word vocabulary, an empty one included, the call returns a mapping
\* in which "PAD" has id 0, every character of a symbol has a unique id greater
\* than 0 given in first-encountered order, and the ids are exactly 0..N-1.
C6_CharVocab ==
    C6_Returned =>
        /\ pure.result.raised = "none"
        /\ GoodCharVocab(pure.id2sym, pure.result.value)

\* What char_vocab_from_vocab keeps of C6: the mapping of every vocabulary that
\* holds a symbol
CharVocabOfNonEmpty ==
    (C6_Returned /\ DOMAIN pure.id2sym # {}) =>
        /\ pure.result.raised = "none"
        /\ GoodCharVocab(pure.id2sym, pure.result.value)

(***************************************************************************)
(* stack_and_pad                                                           *)
(*                                                                         *)
(* A numpy array is [kind |-> "ndarray", shape, data]: shape is the tuple  *)
(* of its sizes and data maps every index (a tuple of 0-based positions    *)
(* inside the shape) to the element there.  A Python number is             *)
(* [kind |-> "scalar", value].                                             *)
(***************************************************************************)
Indices(shape) ==
    {idx \in [1..Len(shape) -> 0..Max({0} \cup {shape[d] : d \in 1..Len(shape)})] :
        \A d \in 1..Len(shape) : idx[d] < shape[d]}

NdArray(shape, data) == [kind |-> "ndarray", shape |-> shape, data |-> data]

\* np.array(values) of a list of numbers
np_array(values) ==
    NdArray(<<Len(values)>>, [idx \in Indices(<<Len(values)>>) |-> values[idx[1] + 1].value])

\* np.lib.pad(value, pad_width, mode='constant', constant_values=pad) with
\* pad_width[d] = (0, after[d])
np_pad(value, after, pad) ==
    LET shape == [d \in 1..Len(value.shape) |-> value.shape[d] + after[d]]
    IN  NdArray(shape,
                [idx \in Indices(shape) |->
                    IF idx \in DOMAIN value.data THEN value.data[idx] ELSE pad])

\* np.stack(arrays) of arrays of one shape
np_stack(arrays) ==
    LET shape == <<Len(arrays)>> \o arrays[1].shape
    IN  NdArray(shape,
                [idx \in Indices(shape) |-> arrays[idx[1] + 1].data[Tail(idx)]])

\* "[max(sizes) for sizes in zip(*[v.shape for v in values])]"
max_shape_OfFirst(values) == values[1].shape

max_shape(values) ==
    LET rank == Min({Len(values[i].shape) : i \in 1..Len(values)})
    IN  [d \in 1..rank |-> Max({values[i].shape[d] : i \in 1..Len(values)})]

\* "[(0, max_shape[i] - value.shape[i]) for i in range(dims)]"
pad_width(value, dims, maxShape) == [d \in 1..dims |-> maxShape[d] - value.shape[d]]

\* stack_and_pad(values, pad)
stack_and_pad(values, pad) ==
    IF values[1].kind = "scalar"
    THEN np_array(values)
    ELSE LET dims == Len(values[1].shape)
             ms   == max_shape(values)
             padded_values ==
                 [i \in 1..Len(values) |->
                     np_pad(values[i], pad_width(values[i], dims, ms), pad)]
         IN  np_stack(padded_values)

\* The arrays of the inputs: the i-th array of a list has any shape and holds
\* i + 2 * idx[1] + 3 * idx[2] + ... at the index idx, so that the elements differ
\* from place to place and from array to array.
RECURSIVE Weighted(_, _)
Weighted(idx, d) == IF d = 0 THEN 0 ELSE (d + 1) * idx[d] + Weighted(idx, d - 1)

ArrayOf(shape, first) ==
    NdArray(shape, [idx \in Indices(shape) |-> first + Weighted(idx, Len(shape))])

Numbers == {1, 2}
PadValues == {0, 1}

\* A list of numbers, or a list of arrays of one rank
InitPad ==
    /\ \E k \in 1..MaxValues, pad \in PadValues :
          \/ \E numbers \in [1..k -> Numbers] :
                pure = [fn |-> "stack_and_pad",
                        values |-> [i \in 1..k |-> [kind |-> "scalar", value |-> numbers[i]]],
                        pad |-> pad, returned |-> FALSE]
          \/ \E r \in 1..MaxRank :
                \E shapes \in [1..k -> [1..r -> 1..MaxDim]] :
                   pure = [fn |-> "stack_and_pad",
                           values |-> [i \in 1..k |-> ArrayOf(shapes[i], i)],
                           pad |-> pad, returned |-> FALSE]
    /\ lossHook = Idle
    /\ lossCalls = <<>>
    /\ accHook = Idle
    /\ accCalls = <<>>
    /\ qa_settings = Idle
    /\ vocab = Idle
    /\ call = Idle

Call_stack_and_pad ==
    /\ pure.fn = "stack_and_pad"
    /\ ~pure.returned
    /\ pure' = [fn |-> pure.fn, values |-> pure.values, pad |-> pure.pad,
                returned |-> TRUE,
                result |-> stack_and_pad(pure.values, pure.pad)]
    /\ UNCHANGED <<lossHook, lossCalls, accHook, accCalls, qa_settings, vocab, call>>

NextPad == Call_stack_and_pad

SpecPad == InitPad /\ [][NextPad]_vars

(***************************************************************************)
(* C7.  stack_and_pad                                                      *)
(***************************************************************************)
C7_Returned == pure.fn = "stack_and_pad" /\ pure.returned

\* C7: for k arrays of one rank r the result has the shape (k, m_1, ..., m_r), m_d
\* the largest size of dimension d among the inputs, and its i-th slice holds the
\* i-th input at the indices inside that input's shape and the pad value at every
\* other index; a list of k numbers is returned as the one-dimensional array of
\* the same k numbers.
C7_PadAndStack ==
    C7_Returned =>
        LET values == pure.values
            k      == Len(values)
            res    == pure.result
        IN  IF \A i \in 1..k : values[i].kind = "scalar"
            THEN /\ res.shape = <<k>>
                 /\ DOMAIN res.data = {<<i>> : i \in 0..(k - 1)}
                 /\ \A i \in 1..k : res.data[<<i - 1>>] = values[i].value
            ELSE LET r == Len(values[1].shape)
                     m == [d \in 1..r |-> Max({values[i].shape[d] : i \in 1..k})]
                 IN  /\ res.shape = <<k>> \o m
                     /\ DOMAIN res.data = Indices(<<k>> \o m)
                     /\ \A i \in 1..k : \A idx \in Indices(m) :
                           res.data[<<i - 1>> \o idx] =
                               IF \A d \in 1..r : idx[d] < values[i].shape[d]
                               THEN values[i].data[idx]
                               ELSE pure.pad

\* The case of C7: two arrays that each are the larger in one dimension, as the
\* shapes (1,2) and (2,1), are padded to (2,2) and stacked to (2,2,2).
C7_Witness ==
    /\ C7_Returned
    /\ Len(pure.values) = 2
    /\ pure.values[1].kind = "ndarray"
    /\ pure.values[1].shape = <<1, 2>>
    /\ pure.values[2].shape = <<2, 1>>
    /\ pure.pad = 0
    /\ pure.result.shape = <<2, 2, 2>>
    /\ pure.result.data[<<0, 1, 0>>] = 0
    /\ pure.result.data[<<0, 0, 1>>] = pure.values[1].data[<<0, 1>>]
    /\ pure.result.data[<<1, 1, 0>>] = pure.values[2].data[<<1, 0>>]
    /\ pure.result.data[<<1, 1, 1>>] = 0

(***************************************************************************)
(* transpose_dict_of_lists                                                 *)
(***************************************************************************)
\* "range(len(dict_of_lists[keys[0]]))": the number of records
RowCount(dict_of_lists, keys) == Len(dict_of_lists[keys[1]])

\* The exception of evaluating dict_of_lists[key][i] (i is 0-based)
LookupError(dict_of_lists, key, i) ==
    IF key \notin DOMAIN dict_of_lists THEN "KeyError"
    ELSE IF i >= Len(dict_of_lists[key]) THEN "IndexError"
    ELSE "none"

\* transpose_dict_of_lists(dict_of_lists, keys): the list of records, or the first
\* exception met, the records being built in order and each from the keys in order
transpose_dict_of_lists(dict_of_lists, keys) ==
    IF keys = <<>> THEN [raised |-> "IndexError", value |-> NoneVal]
    ELSE IF keys[1] \notin DOMAIN dict_of_lists
    THEN [raised |-> "KeyError", value |-> NoneVal]
    ELSE LET n == RowCount(dict_of_lists, keys)
             failing == {<<i, j>> \in (0..(n - 1)) \X (1..Len(keys)) :
                            LookupError(dict_of_lists, keys[j], i) # "none"}
         IN  IF failing # {}
             THEN LET first == CHOOSE f \in failing : \A g \in failing :
                                   f[1] < g[1] \/ (f[1] = g[1] /\ f[2] <= g[2])
                  IN  [raised |-> LookupError(dict_of_lists, keys[first[2]], first[1]),
                       value  |-> NoneVal]
             ELSE [raised |-> "none",
                   value  |-> [i \in 1..n |->
                                 [key \in {keys[j] : j \in 1..Len(keys)} |->
                                     dict_of_lists[key][i]]]]

FieldNames == {"a", "b"}
FieldValues == {1, 2}

InitTranspose ==
    /\ \E fields \in (SUBSET FieldNames) \ {{}} :
          \E dict_of_lists \in [fields -> UNION {[1..n -> FieldValues] : n \in 0..MaxRows}],
             keys \in UNION {[1..n -> FieldNames] : n \in 0..MaxKeys} :
             pure = [fn |-> "transpose_dict_of_lists", dict_of_lists |-> dict_of_lists,
                     keys |-> keys, returned |-> FALSE]
    /\ lossHook = Idle
    /\ lossCalls = <<>>
    /\ accHook = Idle
    /\ accCalls = <<>>
    /\ qa_settings = Idle
    /\ vocab = Idle
    /\ call = Idle

Call_transpose_dict_of_lists ==
    /\ pure.fn = "transpose_dict_of_lists"
    /\ ~pure.returned
    /\ pure' = [fn |-> pure.fn, dict_of_lists |-> pure.dict_of_lists, keys |-> pure.keys,
                returned |-> TRUE,
                result |-> transpose_dict_of_lists(pure.dict_of_lists, pure.keys)]
    /\ UNCHANGED <<lossHook, lossCalls, accHook, accCalls, qa_settings, vocab, call>>

NextTranspose == Call_transpose_dict_of_lists

SpecTranspose == InitTranspose /\ [][NextTranspose]_vars

(***************************************************************************)
(* C8.  transpose_dict_of_lists                                            *)
(***************************************************************************)
\* A call that returned or raised, with a first field name that the mapping holds
C8_Called ==
    /\ pure.fn = "transpose_dict_of_lists"
    /\ pure.returned
    /\ pure.keys # <<>>
    /\ pure.keys[1] \in DOMAIN pure.dict_of_lists

C8_FirstEmpty == pure.dict_of_lists[pure.keys[1]] = <<>>

\* Every selected field is in the mapping with as many values as the first
C8_EqualLengths ==
    \A j \in 1..Len(pure.keys) :
        /\ pure.keys[j] \in DOMAIN pure.dict_of_lists
        /\ Len(pure.dict_of_lists[pure.keys[j]]) = Len(pure.dict_of_lists[pure.keys[1]])

\* The n records of the columns: record i maps every selected field name to the
\* i-th value of the field
C8_RecordsOfColumns ==
    /\ pure.result.raised = "none"
    /\ Len(pure.result.value) = Len(pure.dict_of_lists[pure.keys[1]])
    /\ \A i \in 1..Len(pure.result.value) :
          /\ DOMAIN pure.result.value[i] = {pure.keys[j] : j \in 1..Len(pure.keys)}
          /\ \A j \in 1..Len(pure.keys) :
                pure.result.value[i][pure.keys[j]] = pure.dict_of_lists[pure.keys[j]][i]

\* C8: when the sequence of the first field name is empty the call fails
\* with an error and returns nothing; when it is not and all selected fields have
\* its length n, the call returns the n records of the columns.
C8_EmptyFails ==
    C8_Called =>
        /\ C8_FirstEmpty => pure.result.raised # "none"
        /\ (~C8_FirstEmpty /\ C8_EqualLengths) => C8_RecordsOfColumns

\* What the code does where C8 asks for an error: when the sequence of the first
\* field name is empty the call raises nothing and returns the empty list of
\* records, whatever the other fields hold; when it is not and all selected
\* fields have its length n, the call returns the n records of the columns.
C8_EmptyGivesNoRecords ==
    C8_Called =>
        /\ C8_FirstEmpty => (pure.result.raised = "none" /\ pure.result.value = <<>>)
        /\ (~C8_FirstEmpty /\ C8_EqualLengths) => C8_RecordsOfColumns

\* The call that departs from C8: an empty first field beside a field that holds
\* a value
C8_Witness ==
    /\ C8_Called
    /\ pure.keys = <<"a", "b">>
    /\ pure.dict_of_lists = [a |-> <<>>, b |-> <<1>>]
    /\ pure.result.raised = "none"
    /\ pure.result.value = <<>>

(***************************************************************************)
(* Vocab (jack.util.vocab): the vocabulary the preprocessing functions     *)
(* fill.  A vocabulary is [id2sym, frozen]: id2sym is the sequence of its  *)
(* symbols, the symbol of id i at place i + 1.                             *)
(***************************************************************************)
\* Vocab(unk=None): a new vocabulary, not frozen, with no symbol
VocabNew == [id2sym |-> <<>>, frozen |-> FALSE]

\* len(vocab), which is also the truth value of a vocabulary in "vocab or ..."
VocabLen(v) == Len(v.id2sym)

VocabHas(v, sym) == \E i \in 1..Len(v.id2sym) : v.id2sym[i] = sym

\* The id of a symbol of the vocabulary
VocabId(v, sym) == (CHOOSE i \in 1..Len(v.id2sym) : v.id2sym[i] = sym) - 1

\* The id that stands for a symbol a frozen vocabulary does not hold
UnknownId == -1

\* vocab.freeze()
VocabFreeze(v) == [v EXCEPT !.frozen = TRUE]

\* vocab.normalize(id): the id itself when it is not negative
VocabNormalize(v, id) == IF id >= 0 THEN id ELSE VocabLen(v) - id - 1

\* vocab(tokens) for the first k tokens: looks every symbol up, registering it when
\* the vocabulary is not frozen and does not hold it: [vocab, ids]
VocabLookup(before, sym) ==
    IF VocabHas(before.vocab, sym)
    THEN [before EXCEPT !.ids = Append(@, VocabId(before.vocab, sym))]
    ELSE IF before.vocab.frozen
    THEN [before EXCEPT !.ids = Append(@, UnknownId)]
    ELSE [vocab |-> [before.vocab EXCEPT !.id2sym = Append(@, sym)],
          ids   |-> Append(before.ids, VocabLen(before.vocab))]

RECURSIVE VocabCall(_, _, _)
VocabCall(v, tokens, k) ==
    IF k = 0 THEN [vocab |-> v, ids |-> <<>>]
    ELSE VocabLookup(VocabCall(v, tokens, k - 1), tokens[k])

(***************************************************************************)
(* tokenize and nlp_preprocess                                             *)
(***************************************************************************)
\* The characters the pattern's \w and \s match, among those of the model
WordChars == {"a", "b", "A", "B"}
SpaceChars == {" "}

\* str.lower()
LowerChar(c) == CASE c = "A" -> "a" [] c = "B" -> "b" [] OTHER -> c
Lower(text) == [i \in 1..Len(text) |-> LowerChar(text[i])]

\* The end of the run of word characters that starts at place i
RECURSIVE WordEnd(_, _)
WordEnd(text, i) ==
    IF i < Len(text) /\ text[i + 1] \in WordChars THEN WordEnd(text, i + 1) ELSE i

\* __pattern.findall(text) from place i on, for the pattern '\w+|[^\w\s]'
RECURSIVE FindAll(_, _)
FindAll(text, i) ==
    IF i > Len(text) THEN <<>>
    ELSE IF text[i] \in WordChars
    THEN <<SubSeq(text, i, WordEnd(text, i))>> \o FindAll(text, WordEnd(text, i) + 1)
    ELSE IF text[i] \in SpaceChars
    THEN FindAll(text, i + 1)
    ELSE <<<<text[i]>>>> \o FindAll(text, i + 1)

tokenize(text) == FindAll(text, 1)

\* "for i in range(len(ids)): ids[i] = vocab.normalize(ids[i])"
NormalizeIds(v, ids) == [i \in 1..Len(ids) |-> VocabNormalize(v, ids[i])]

\* A list where None may stand instead
PyList(items) == [kind |-> "list", items |-> items]

\* nlp_preprocess without spaCy (spacy_nlp is False): [raised, value, vocab], the
\* value being the tuple (tokens, ids, length, lemmas, token_offsets) and vocab the
\* vocabulary after the call
nlp_preprocess_return(v, tokens, token_offsets, looked) ==
    IF token_offsets.raised # "none"
    THEN [raised |-> token_offsets.raised, value |-> NoneVal, vocab |-> v]
    ELSE [raised |-> "none",
          value  |-> [tokens        |-> tokens,
                      ids           |-> IF ~looked.vocab.frozen
                                        THEN NormalizeIds(looked.vocab, looked.ids)
                                        ELSE looked.ids,
                      length        |-> Len(tokens),
                      lemmas        |-> NoneVal,
                      token_offsets |-> token_offsets.value],
          vocab  |-> looked.vocab]

\* The offsets of line 98 as the list the record holds
OffsetsList(found) ==
    IF found.raised # "none" THEN found
    ELSE [raised |-> "none", value |-> PyList(found.value)]

\* Lines 87 to 108, for the tokens of the text
nlp_preprocess_tokens(text, v, tokens, with_tokens_offsets) ==
    nlp_preprocess_return(v, tokens,
                          IF with_tokens_offsets
                          THEN OffsetsList(token_to_char_offsets(text, tokens))
                          ELSE [raised |-> "none", value |-> NoneVal],
                          VocabCall(v, tokens, Len(tokens)))

\* Lines 85 to 108, for the text as lowercase left it
nlp_preprocess_text(text, v, with_tokens_offsets) ==
    nlp_preprocess_tokens(text, v, tokenize(text), with_tokens_offsets)

nlp_preprocess(text, v, lowercase, lemmatize, with_lemmas, with_tokens_offsets) ==
    IF with_lemmas \/ lemmatize
    THEN [raised |-> "AssertionError", value |-> NoneVal, vocab |-> v]
    ELSE nlp_preprocess_text(IF lowercase THEN Lower(text) ELSE text, v,
                             with_tokens_offsets)

(***************************************************************************)
(* fill_vocab and nlp_preprocess_all                                       *)
(*                                                                         *)
(* A QA setting is [question, support].  A collection of QA settings is    *)
(* [items, support]: items are the settings met when iterating it, and     *)
(* support is its own attribute of that name: NoAttr for a list, which has *)
(* none, or [kind |-> "list", items |-> passages].                         *)
(***************************************************************************)
NoAttr == [kind |-> "no attribute"]

\* A loop "for s in passages: nlp_preprocess(s, vocab, lowercase, lemmatize)" over
\* the first n passages, from the state st = [vocab, records, raised]
PassagesAppend(before, r) ==
    IF r.raised # "none" THEN [before EXCEPT !.raised = r.raised]
    ELSE [vocab   |-> r.vocab,
          records |-> Append(before.records, r.value),
          raised  |-> "none"]

PassagesStep(before, s, lowercase, lemmatize, with_lemmas, with_tokens_offsets) ==
    IF before.raised # "none" THEN before
    ELSE PassagesAppend(before,
                        nlp_preprocess(s, before.vocab, lowercase, lemmatize,
                                       with_lemmas, with_tokens_offsets))

RECURSIVE PassagesLoop(_, _, _, _, _, _, _)
PassagesLoop(passages, n, st, lowercase, lemmatize, with_lemmas, with_tokens_offsets) ==
    IF n = 0 THEN st
    ELSE PassagesStep(PassagesLoop(passages, n - 1, st, lowercase, lemmatize,
                                   with_lemmas, with_tokens_offsets),
                      passages[n], lowercase, lemmatize, with_lemmas, with_tokens_offsets)

\* The body of fill_vocab's loop for one setting: the question, then its passages
FillOne_QuestionOnly(qa_setting, st, lowercase, lemmatize) ==
    PassagesLoop(<<qa_setting.question>>, 1, st, lowercase, lemmatize, FALSE, FALSE)

FillOne(qa_setting, st, lowercase, lemmatize) ==
    PassagesLoop(<<qa_setting.question>> \o qa_setting.support,
                 1 + Len(qa_setting.support), st, lowercase, lemmatize, FALSE, FALSE)

\* fill_vocab's loop "for qa_setting in qa_settings" over the first n settings
FillStep(before, qa_setting, lowercase, lemmatize) ==
    IF before.raised # "none" THEN before
    ELSE FillOne(qa_setting, before, lowercase, lemmatize)

RECURSIVE FillLoop(_, _, _, _, _)
FillLoop(items, n, st, lowercase, lemmatize) ==
    IF n = 0 THEN st
    ELSE FillStep(FillLoop(items, n - 1, st, lowercase, lemmatize), items[n],
                  lowercase, lemmatize)

\* fill_vocab(qa_settings, vocab, lowercase, lemmatize): [raised, value, vocab], the
\* value being the vocabulary returned and vocab the one passed, after the call
fill_vocab_return(v, st) ==
    [raised |-> st.raised,
     value  |-> IF st.raised # "none" THEN NoneVal ELSE st.vocab,
     vocab  |-> IF VocabLen(v) # 0 THEN st.vocab ELSE v]

fill_vocab_used(settings, v, used, lowercase, lemmatize) ==
    IF used.frozen
    THEN [raised |-> "AssertionError", value |-> NoneVal, vocab |-> v]
    ELSE fill_vocab_return(v, FillLoop(settings.items, Len(settings.items),
                                       [vocab |-> used, records |-> <<>>,
                                        raised |-> "none"],
                                       lowercase, lemmatize))

fill_vocab(settings, v, lowercase, lemmatize) ==
    fill_vocab_used(settings, v,
                    IF VocabLen(v) # 0 THEN v ELSE VocabNew,  \* vocab or Vocab(unk=None)
                    lowercase, lemmatize)

\* nlp_preprocess_all's loop over the first n settings, from the state
\* [vocab, processed_questions, processed_support, raised].  The flags the inner
\* calls get are those of lines 50 and 53: lowercase and lemmatize.
AllSupport(before, q, sup) ==
    [vocab               |-> sup.vocab,
     processed_questions |-> Append(before.processed_questions, q.value),
     processed_support   |-> Append(before.processed_support, sup.records),
     raised              |-> sup.raised]

AllQuestion(settings, before, q, lowercase, lemmatize, with_lemmas, with_tokens_offsets) ==
    IF q.raised # "none" THEN [before EXCEPT !.raised = q.raised]
    ELSE IF settings.support = NoAttr          \* "qa_settings.support"
    THEN [before EXCEPT
            !.vocab = q.vocab,
            !.processed_questions = Append(@, q.value),
            !.processed_support = Append(@, <<>>),
            !.raised = "AttributeError"]
    ELSE AllSupport(before, q,
                    PassagesLoop(settings.support.items, Len(settings.support.items),
                                 [vocab |-> q.vocab, records |-> <<>>, raised |-> "none"],
                                 lowercase, lemmatize, with_lemmas, with_tokens_offsets))

AllStep(settings, before, qa_setting, lowercase, lemmatize, with_lemmas, with_tokens_offsets) ==
    IF before.raised # "none" THEN before
    ELSE AllQuestion(settings, before,
                     nlp_preprocess(qa_setting.question, before.vocab, lowercase,
                                    lemmatize, with_lemmas, with_tokens_offsets),
                     lowercase, lemmatize, with_lemmas, with_tokens_offsets)

RECURSIVE AllLoop(_, _, _, _, _, _, _)
AllLoop(settings, n, st, lowercase, lemmatize, with_lemmas, with_tokens_offsets) ==
    IF n = 0 THEN st
    ELSE AllStep(settings,
                 AllLoop(settings, n - 1, st, lowercase, lemmatize,
                         with_lemmas, with_tokens_offsets),
                 settings.items[n], lowercase, lemmatize, with_lemmas,
                 with_tokens_offsets)

\* What nlp_preprocess_all returns or raises after its loop
nlp_preprocess_all_return(st) ==
    IF st.raised # "none"
    THEN [raised |-> st.raised, value |-> NoneVal, vocab |-> st.vocab]
    ELSE [raised |-> "none",
          value  |-> [processed_questions |-> st.processed_questions,
                      processed_support   |-> st.processed_support],
          vocab  |-> st.vocab]

\* nlp_preprocess_all(qa_settings, vocab, lowercase, lemmatize, with_lemmas,
\* with_tokens_offsets): [raised, value, vocab], the value being the pair
\* (processed_questions, processed_support)
nlp_preprocess_all_Forwarding(settings, v, lowercase, lemmatize, with_lemmas, with_tokens_offsets) ==
    IF v.frozen
    THEN [raised |-> "AssertionError", value |-> NoneVal, vocab |-> v]
    ELSE nlp_preprocess_all_return(
             AllLoop(settings, Len(settings.items),
                     [vocab |-> v, processed_questions |-> <<>>,
                      processed_support |-> <<>>, raised |-> "none"],
                     lowercase, lemmatize, with_lemmas, with_tokens_offsets))

nlp_preprocess_all(settings, v, lowercase, lemmatize, with_lemmas, with_tokens_offsets) ==
    IF v.frozen
    THEN [raised |-> "AssertionError", value |-> NoneVal, vocab |-> v]
    ELSE nlp_preprocess_all_return(
             AllLoop(settings, Len(settings.items),
                     [vocab |-> v, processed_questions |-> <<>>,
                      processed_support |-> <<>>, raised |-> "none"],
                     lowercase, lemmatize, FALSE, FALSE))

(***************************************************************************)
(* The caller of fill_vocab, nlp_preprocess_all and nlp_preprocess: it     *)
(* holds a collection of QA settings and a vocabulary, which it may freeze.*)
(***************************************************************************)
\* The questions and passages of the collections: "", "A", "a", "A.", " a", "a A"
Texts ==
    {<<>>, <<"A">>, <<"a">>, <<"A", ".">>, <<" ", "a">>, <<"a", " ", "A">>}

\* The collection of the settings whose numbers of passages are counts, with the
\* passages attr_count of its own (-1: it has no attribute support), its
\* questions and passages being taken from texts in order
RECURSIVE SumTo(_, _)
SumTo(counts, n) == IF n = 0 THEN 0 ELSE counts[n] + SumTo(counts, n - 1)

Collection(counts, attr_count, texts) ==
    LET start(i) == (i - 1) + SumTo(counts, i - 1)      \* texts before setting i
        used     == Len(counts) + SumTo(counts, Len(counts))
    IN  [items   |-> [i \in 1..Len(counts) |->
                        [question |-> texts[start(i) + 1],
                         support  |-> [j \in 1..counts[i] |-> texts[start(i) + 1 + j]]]],
         support |-> IF attr_count < 0 THEN NoAttr
                     ELSE PyList([j \in 1..attr_count |-> texts[used + j]])]

TextCount(counts, attr_count) ==
    Len(counts) + SumTo(counts, Len(counts)) + (IF attr_count < 0 THEN 0 ELSE attr_count)

\* The questions and passages of a collection
TextsOf(settings) ==
    UNION {{settings.items[i].question}
           \cup {settings.items[i].support[j] : j \in 1..Len(settings.items[i].support)} :
           i \in 1..Len(settings.items)}
    \cup (IF settings.support = NoAttr THEN {}
          ELSE {settings.support.items[j] : j \in 1..Len(settings.support.items)})

\* The collections with up to MaxTexts questions and passages in all; the lists
\* among them are those with no attribute support
InitCollection(attr_counts) ==
    \E k \in 0..MaxTexts :
       \E counts \in [1..k -> 0..MaxTexts], attr_count \in attr_counts :
          /\ TextCount(counts, attr_count) <= MaxTexts
          /\ \E texts \in [1..TextCount(counts, attr_count) -> Texts] :
                qa_settings = Collection(counts, attr_count, texts)

InitCaller ==
    /\ vocab = VocabNew
    /\ call = [fn |-> "none"]
    /\ lossHook = Idle
    /\ lossCalls = <<>>
    /\ accHook = Idle
    /\ accCalls = <<>>
    /\ pure = Idle

\* The caller holds a list of QA settings and a new vocabulary.
InitFill == InitCollection({-1}) /\ InitCaller

\* The caller holds a list of QA settings, or a collection with passages of its
\* own, and a new vocabulary.
InitAll == InitCollection((-1)..MaxTexts) /\ InitCaller

\* The record of a call: its arguments, and what it raised, returned and left in
\* the vocabulary it was passed
CallOf(arguments, r) ==
    [n \in DOMAIN arguments \cup {"raised", "value", "vocab_after"} |->
        CASE n = "raised"      -> r.raised
          [] n = "value"       -> r.value
          [] n = "vocab_after" -> r.vocab
          [] OTHER             -> arguments[n]]

\* vocab = fill_vocab(qa_settings, vocab, lowercase, lemmatize)
Call_fill_vocab ==
    /\ \E lowercase, lemmatize \in BOOLEAN :
          /\ call' = CallOf([fn |-> "fill_vocab", vocab_arg |-> vocab,
                             lowercase |-> lowercase, lemmatize |-> lemmatize],
                            fill_vocab(qa_settings, vocab, lowercase, lemmatize))
          /\ vocab' = IF call'.raised = "none" THEN call'.value ELSE call'.vocab_after
    /\ UNCHANGED <<lossHook, lossCalls, accHook, accCalls, pure, qa_settings>>

\* nlp_preprocess_all(qa_settings, vocab, lowercase, lemmatize, with_lemmas,
\* with_tokens_offsets)
Call_nlp_preprocess_all ==
    /\ \E lowercase, lemmatize, with_lemmas, with_tokens_offsets \in BOOLEAN :
          /\ call' = CallOf([fn |-> "nlp_preprocess_all", vocab_arg |-> vocab,
                             lowercase |-> lowercase, lemmatize |-> lemmatize,
                             with_lemmas |-> with_lemmas,
                             with_tokens_offsets |-> with_tokens_offsets],
                            nlp_preprocess_all(qa_settings, vocab, lowercase, lemmatize,
                                               with_lemmas, with_tokens_offsets))
          /\ vocab' = call'.vocab_after
    /\ UNCHANGED <<lossHook, lossCalls, accHook, accCalls, pure, qa_settings>>

\* nlp_preprocess(text, vocab, lowercase, lemmatize, with_lemmas,
\* with_tokens_offsets) for a question or passage of the collection
Call_nlp_preprocess ==
    /\ \E text \in TextsOf(qa_settings) :
       \E lowercase, lemmatize, with_lemmas, with_tokens_offsets \in BOOLEAN :
          /\ call' = CallOf([fn |-> "nlp_preprocess", vocab_arg |-> vocab, text |-> text,
                             lowercase |-> lowercase, lemmatize |-> lemmatize,
                             with_lemmas |-> with_lemmas,
                             with_tokens_offsets |-> with_tokens_offsets],
                            nlp_preprocess(text, vocab, lowercase, lemmatize,
                                           with_lemmas, with_tokens_offsets))
          /\ vocab' = call'.vocab_after
    /\ UNCHANGED <<lossHook, lossCalls, accHook, accCalls, pure, qa_settings>>

\* vocab.freeze()
Freeze ==
    /\ vocab # Idle
    /\ ~vocab.frozen
    /\ vocab' = VocabFreeze(vocab)
    /\ UNCHANGED <<lossHook, lossCalls, accHook, accCalls, pure, qa_settings, call>>

\* A caller that fills its vocabulary and may freeze it
NextFill ==
    \/ Call_fill_vocab
    \/ Freeze

SpecFill == InitFill /\ [][NextFill]_vars

\* A caller that fills its vocabulary, processes its settings and may freeze the
\* vocabulary
NextFrozen ==
    \/ Call_fill_vocab
    \/ Call_nlp_preprocess_all
    \/ Freeze

SpecFrozen == InitFill /\ [][NextFrozen]_vars

\* No call has been made yet
FirstCall == call.fn = "none"

\* A caller that processes its settings, or one of their questions and passages,
\* with a new vocabulary
NextAll ==
    \/ FirstCall /\ Call_nlp_preprocess_all
    \/ FirstCall /\ Call_nlp_preprocess

SpecAll == InitAll /\ [][NextAll]_vars

(***************************************************************************)
(* C3.  A frozen vocabulary is rejected.                                   *)
(***************************************************************************)
\* C3: a call of fill_vocab or of nlp_preprocess_all with a frozen vocabulary, one
\* with no symbols included, and a collection that is not empty fails with the
\* assertion error, and processes no text before it: it registers no symbol and
\* returns nothing.
C3_FrozenRejected ==
    (/\ call.fn \in {"fill_vocab", "nlp_preprocess_all"}
     /\ call.vocab_arg.frozen
     /\ qa_settings.items # <<>>)
    => /\ call.raised = "AssertionError"
       /\ call.value = NoneVal
       /\ call.vocab_after = call.vocab_arg

\* What the code keeps of C3: nlp_preprocess_all rejects every frozen vocabulary,
\* fill_vocab every frozen vocabulary that holds a symbol
FrozenRejectedUnlessEmpty ==
    (/\ call.fn \in {"fill_vocab", "nlp_preprocess_all"}
     /\ call.vocab_arg.frozen
     /\ (call.fn = "nlp_preprocess_all" \/ VocabLen(call.vocab_arg) # 0))
    => /\ call.raised = "AssertionError"
       /\ call.value = NoneVal
       /\ call.vocab_after = call.vocab_arg

(***************************************************************************)
(* C4.  fill_vocab registers every token and keeps the ids.                *)
(***************************************************************************)
\* The tokens that occur in a text: the maximal runs of word characters, and the
\* characters that are neither word characters nor white space
TokensIn(text) ==
    {SubSeq(text, i, j) : <<i, j>> \in
        {p \in (1..Len(text)) \X (1..Len(text)) :
            /\ p[1] <= p[2]
            /\ \A n \in p[1]..p[2] : text[n] \in WordChars
            /\ (p[1] = 1 \/ text[p[1] - 1] \notin WordChars)
            /\ (p[2] = Len(text) \/ text[p[2] + 1] \notin WordChars)}}
    \cup {<<text[i]>> : i \in {n \in 1..Len(text) : text[n] \notin WordChars \cup SpaceChars}}

\* The tokens of the questions and passages of the caller's settings, as a call
\* with the flag lowercase meets them
CorpusTokens(lowercase) ==
    UNION {TokensIn(IF lowercase THEN Lower(text) ELSE text) : text \in TextsOf(qa_settings)}

C4_Filled ==
    /\ call.fn = "fill_vocab"
    /\ ~call.vocab_arg.frozen
    /\ qa_settings.items # <<>>
    /\ ~call.lemmatize

\* C4: fill_vocab with a vocabulary that is not frozen and a collection that is not
\* empty returns a vocabulary in which every token of every question and of every
\* passage has an id that is not negative, and in which every symbol the
\* vocabulary held before the call, as when the call is run a second time, has the
\* id it had.
C4_FillRegistersTokens ==
    C4_Filled =>
        /\ call.raised = "none"
        /\ \A tok \in CorpusTokens(call.lowercase) :
              /\ VocabHas(call.value, tok)
              /\ VocabId(call.value, tok) >= 0
        /\ VocabLen(call.vocab_arg) # 0 =>
              \A i \in 1..VocabLen(call.vocab_arg) :
                 /\ VocabHas(call.value, call.vocab_arg.id2sym[i])
                 /\ VocabId(call.value, call.vocab_arg.id2sym[i]) = i - 1

\* The case of C4: the second run over a question and a passage with a token of
\* its own finds the three tokens registered and adds none.
C4_Witness ==
    /\ C4_Filled
    /\ qa_settings.items = <<[question |-> <<"A", ".">>, support |-> <<<<"a", " ", "A">>>>]>>
    /\ ~call.lowercase
    /\ call.raised = "none"
    /\ call.vocab_arg.id2sym = <<<<"A">>, <<".">>, <<"a">>>>
    /\ call.value = call.vocab_arg

(***************************************************************************)
(* C9.  nlp_preprocess_all returns the records of every setting.           *)
(***************************************************************************)
\* The tokens of the record of a text
RecordTokens(text, lowercase) == tokenize(IF lowercase THEN Lower(text) ELSE text)

\* C9: nlp_preprocess_all with a vocabulary that is not frozen and k settings
\* returns two lists of length k: the i-th entry of the first is the record of the
\* i-th question, the i-th entry of the second holds one record for every passage
\* of the i-th setting, in the order of the passages.
C9_ParallelRecords ==
    (/\ call.fn = "nlp_preprocess_all"
     /\ ~call.vocab_arg.frozen
     /\ ~call.lemmatize)
    => /\ call.raised = "none"
       /\ LET k  == Len(qa_settings.items)
              pq == call.value.processed_questions
              ps == call.value.processed_support
          IN  /\ Len(pq) = k
              /\ Len(ps) = k
              /\ \A i \in 1..k :
                    /\ pq[i].tokens = RecordTokens(qa_settings.items[i].question, call.lowercase)
                    /\ pq[i].length = Len(pq[i].tokens)
                    /\ Len(ps[i]) = Len(qa_settings.items[i].support)
                    /\ \A j \in 1..Len(ps[i]) :
                          ps[i][j].tokens =
                              RecordTokens(qa_settings.items[i].support[j], call.lowercase)

(***************************************************************************)
(* C10.  nlp_preprocess_all returns no lemmas and no offsets.              *)
(***************************************************************************)
\* The records a call of nlp_preprocess_all returned, questions and passages
ReturnedRecords ==
    {call.value.processed_questions[i] : i \in 1..Len(call.value.processed_questions)}
    \cup UNION {{call.value.processed_support[i][j] :
                    j \in 1..Len(call.value.processed_support[i])} :
                i \in 1..Len(call.value.processed_support)}

\* C10: whatever the flags with_lemmas and with_tokens_offsets, every record that
\* nlp_preprocess_all returns has no lemmas and no offsets; nlp_preprocess itself,
\* called with with_tokens_offsets and without spaCy, returns one offset per token.
C10_FlagsNotForwarded ==
    /\ (call.fn = "nlp_preprocess_all" /\ call.raised = "none") =>
          \A rec \in ReturnedRecords :
             rec.lemmas = NoneVal /\ rec.token_offsets = NoneVal
    /\ (/\ call.fn = "nlp_preprocess"
        /\ call.with_tokens_offsets
        /\ ~call.with_lemmas
        /\ ~call.lemmatize)
       => /\ call.raised = "none"
          /\ call.value.token_offsets # NoneVal
          /\ Len(call.value.token_offsets.items) = Len(call.value.tokens)
          /\ call.value.lemmas = NoneVal

\* The case of C10: a call with with_tokens_offsets returned the record of a
\* question and the record of a passage, both of two tokens.
C10_Witness ==
    /\ call.fn = "nlp_preprocess_all"
    /\ call.with_tokens_offsets
    /\ ~call.with_lemmas
    /\ call.raised = "none"
    /\ Len(call.value.processed_questions) = 1
    /\ call.value.processed_questions[1].tokens = <<<<"A">>, <<".">>>>
    /\ call.value.processed_questions[1].token_offsets = NoneVal
    /\ Len(call.value.processed_support[1]) = 1
    /\ call.value.processed_support[1][1].tokens = <<<<"a">>, <<"A">>>>
    /\ call.value.processed_support[1][1].token_offsets = NoneVal

\* The other case of C10: nlp_preprocess itself returns the offsets.
C10_WitnessDirect ==
    /\ call.fn = "nlp_preprocess"
    /\ call.with_tokens_offsets
    /\ call.text = <<"a", " ", "A">>
    /\ call.raised = "none"
    /\ call.value.token_offsets = PyList(<<0, 2>>)

=============================================================================
